---------------------------- MODULE Spec2Model ----------------------------
(***************************************************************************)
(* GitExpress: the browser UI (src/src/App.jsx) that generates code with   *)
(* an AI service and commits it to GitHub, and the daily-problem scripts   *)
(* (src/unnamed/part_000 is the Codeforces script, src/src/leetcode-       *)
(* daily.js the LeetCode one).                                              *)
(*                                                                         *)
(* Strings are sequences of one-character strings, so that the regular     *)
(* expressions, trim() and charCodeAt() of the source act on characters.   *)
(***************************************************************************)
EXTENDS Integers, Sequences, FiniteSets, TLC

VARIABLES
    \* ---- React state of App (App.jsx 200-207) and the browser's storage
    mode, language, prompt, geminiKey, githubToken, repoOverride, isLoading, logs,
    localStorage,
    \* ---- one invocation of start(): where the async function is suspended,
    \* the values its closure captured and its locals
    pc, run,
    \* ---- history of the current invocation of start(): the external
    \* operations issued and settled, in order, and how the invocation began
    trace, invocation,
    \* ---- the daily-selection functions: the clock read by new Date(), the
    \* fetched problem list, and the last two selections made on it
    now, problems, daily, prevDaily,
    \* ---- the pure functions applied to drawn inputs: the outcome of the
    \* token-format check on githubToken, and an AI response and what
    \* parseCustomBuildResponse made of it
    patResult, response, parsed,
    \* ---- cleanHtmlContent applied to a drawn problem statement: the markup
    \* and what came back
    html, cleaned,
    \* ---- the LeetCode script: the daily challenge the remote service
    \* answers with, one invocation of saveToFile, and the files on disk
    remote, save, files

vars == << mode, language, prompt, geminiKey, githubToken, repoOverride, isLoading, logs,
           localStorage, pc, run, trace, invocation,
           now, problems, daily, prevDaily,
           patResult, response, parsed,
           html, cleaned, remote, save, files >>

uiVars    == << mode, language, prompt, geminiKey, githubToken, repoOverride, isLoading,
                logs, localStorage, pc, run, trace, invocation >>
dailyVars == << now, problems, daily, prevDaily >>
patVars   == << patResult >>
parseVars == << response, parsed >>
htmlVars  == << html, cleaned >>
saveVars  == << remote, save, files >>

----------------------------------------------------------------------------
(* Bounds of the model *)

\* validation messages and "saved" lines that may pile up in the terminal
MaxLogs == 1
\* longest fetched Codeforces problem list
MaxProblems == 3
\* longest token body tried beyond the minimum the format asks for
MaxExtra == 2
\* number of pieces an AI response is put together from
MaxPieces == 4
\* number of tags, of lines and tags, and of entities a problem statement is
\* put together from
MaxTags == 2
MaxLines == 4
MaxEntities == 2
\* days the remote service runs through, and votes a problem receives
MaxDays == 2
MaxLikes == 2

----------------------------------------------------------------------------
(* Characters and strings *)

LowerSeq == << "a","b","c","d","e","f","g","h","i","j","k","l","m",
               "n","o","p","q","r","s","t","u","v","w","x","y","z" >>
UpperSeq == << "A","B","C","D","E","F","G","H","I","J","K","L","M",
               "N","O","P","Q","R","S","T","U","V","W","X","Y","Z" >>
DigitSeq == << "0","1","2","3","4","5","6","7","8","9" >>

Range(s) == { s[i] : i \in DOMAIN s }

Lower  == Range(LowerSeq)
Upper  == Range(UpperSeq)
Digits == Range(DigitSeq)

\* JavaScript's \s and the characters trim() strips (those the model uses)
WhiteSpace == { " ", "\n", "\t" }

\* c lowered, as a case-insensitive regular expression compares characters
ToLower(c) ==
    IF c \in Upper
      THEN LowerSeq[CHOOSE i \in DOMAIN UpperSeq : UpperSeq[i] = c]
      ELSE c

\* String.prototype.trim
RECURSIVE TrimStart(_)
TrimStart(s) ==
    IF s # << >> /\ Head(s) \in WhiteSpace THEN TrimStart(Tail(s)) ELSE s

RECURSIVE TrimEnd(_)
TrimEnd(s) ==
    IF s # << >> /\ s[Len(s)] \in WhiteSpace
      THEN TrimEnd(SubSeq(s, 1, Len(s) - 1))
      ELSE s

Trim(s) == TrimEnd(TrimStart(s))

\* the literal lit matches s at position i
MatchAt(s, i, lit) ==
    /\ i >= 1
    /\ i + Len(lit) - 1 <= Len(s)
    /\ \A k \in 1..Len(lit) : s[i + k - 1] = lit[k]

\* the same under the i flag
MatchAtCI(s, i, lit) ==
    /\ i >= 1
    /\ i + Len(lit) - 1 <= Len(s)
    /\ \A k \in 1..Len(lit) : ToLower(s[i + k - 1]) = ToLower(lit[k])

\* greedy \s* from position i: the first position at or after i that holds no
\* white space (Len(s) + 1 at the end of the string)
RECURSIVE SkipWs(_, _)
SkipWs(s, i) ==
    IF i <= Len(s) /\ s[i] \in WhiteSpace THEN SkipWs(s, i + 1) ELSE i

Min(S) == CHOOSE x \in S : \A y \in S : x <= y

\* an optional value: null, or a string
null == [isNull |-> TRUE, val |-> << >>]
Some(v) == [isNull |-> FALSE, val |-> v]

----------------------------------------------------------------------------
(* cleanHtmlContent: the markup-to-text normalizer, in its two copies       *)
(* (App.jsx 94-112 and leetcode-daily.js 105-138)                           *)

\* String.prototype.replace(/lit/g, rep) where the pattern is the literal lit
RECURSIVE replaceAll(_, _, _)
replaceAll(s, lit, rep) ==
    IF s = << >> THEN << >>
    ELSE IF MatchAt(s, 1, lit)
      THEN rep \o replaceAll(SubSeq(s, Len(lit) + 1, Len(s)), lit, rep)
    ELSE << Head(s) >> \o replaceAll(Tail(s), lit, rep)

\* a chain of .replace(/lit/g, rep) calls, in the order of the table
RECURSIVE replaceEach(_, _)
replaceEach(s, table) ==
    IF table = << >> THEN s
    ELSE replaceEach(replaceAll(s, Head(table)[1], Head(table)[2]), Tail(table))

\* length of the match of /<br\s*\/?>/ at the start of s, 0 when there is none
BrMatch(s) ==
    IF ~MatchAt(s, 1, << "<", "b", "r" >>) THEN 0
    ELSE LET i == SkipWs(s, 4)
             j == IF i <= Len(s) /\ s[i] = "/" THEN i + 1 ELSE i
         IN  IF j <= Len(s) /\ s[j] = ">" THEN j ELSE 0

\* .replace(/<br\s*\/?>/g, "\n")
RECURSIVE replaceBr(_)
replaceBr(s) ==
    IF s = << >> THEN << >>
    ELSE IF BrMatch(s) > 0
      THEN << "\n" >> \o replaceBr(SubSeq(s, BrMatch(s) + 1, Len(s)))
    ELSE << Head(s) >> \o replaceBr(Tail(s))

\* length of the match of /<[^>]+>/ at the start of s, 0 when there is none:
\* "<", at least one character that is not ">", and the first ">" after them
TagMatch(s) ==
    IF s = << >> \/ Head(s) # "<" THEN 0
    ELSE LET closes == { j \in 2..Len(s) : s[j] = ">" }
         IN  IF closes = { } \/ Min(closes) = 2 THEN 0 ELSE Min(closes)

\* .replace(/<[^>]+>/g, "")
RECURSIVE stripTags(_)
stripTags(s) ==
    IF s = << >> THEN << >>
    ELSE IF TagMatch(s) > 0
      THEN stripTags(SubSeq(s, TagMatch(s) + 1, Len(s)))
    ELSE << Head(s) >> \o stripTags(Tail(s))

\* number of newline characters s starts with
RECURSIVE LeadingNewlines(_)
LeadingNewlines(s) ==
    IF s # << >> /\ Head(s) = "\n" THEN 1 + LeadingNewlines(Tail(s)) ELSE 0

\* a mutant of collapseNewlines: the pattern is /\n\n\n/g, three newlines and
\* no more
collapseNewlines_ExactlyThree(s) ==
    replaceAll(s, << "\n", "\n", "\n" >>, << "\n", "\n" >>)

\* .replace(/\n{3,}/g, "\n\n")
RECURSIVE collapseNewlines(_)
collapseNewlines(s) ==
    IF s = << >> THEN << >>
    ELSE IF LeadingNewlines(s) >= 3
      THEN << "\n", "\n" >>
             \o collapseNewlines(SubSeq(s, LeadingNewlines(s) + 1, Len(s)))
    ELSE << Head(s) >> \o collapseNewlines(Tail(s))

\* the characters U+0060 (a backtick) and U+2022 (a bullet), written by their
\* code points
Backtick == "U+0060"
Bullet   == "U+2022"
\* a newline, three backticks and a newline
Fence == << "\n", Backtick, Backtick, Backtick, "\n" >>

\* the tags both copies replace (App.jsx 97-102, leetcode-daily.js 108-113)
CommonTags ==
    << << << "<","p","r","e",">" >>,                 Fence >>,
       << << "<","/","p","r","e",">" >>,             Fence >>,
       << << "<","c","o","d","e",">" >>,             << Backtick >> >>,
       << << "<","/","c","o","d","e",">" >>,         << Backtick >> >>,
       << << "<","s","t","r","o","n","g",">" >>,     << "*", "*" >> >>,
       << << "<","/","s","t","r","o","n","g",">" >>, << "*", "*" >> >> >>

\* the tags the script replaces besides (leetcode-daily.js 114-127)
ScriptTags ==
    << << << "<","e","m",">" >>,         << "*" >> >>,
       << << "<","/","e","m",">" >>,     << "*" >> >>,
       << << "<","s","u","p",">" >>,     << "^" >> >>,
       << << "<","/","s","u","p",">" >>, << >> >>,
       << << "<","s","u","b",">" >>,     << "_" >> >>,
       << << "<","/","s","u","b",">" >>, << >> >>,
       << << "<","l","i",">" >>,         << Bullet, " " >> >>,
       << << "<","/","l","i",">" >>,     << "\n" >> >>,
       << << "<","u","l",">" >>,         << "\n" >> >>,
       << << "<","/","u","l",">" >>,     << >> >>,
       << << "<","o","l",">" >>,         << "\n" >> >>,
       << << "<","/","o","l",">" >>,     << >> >>,
       << << "<","p",">" >>,             << "\n" >> >>,
       << << "<","/","p",">" >>,         << "\n" >> >> >>

\* the entities, in the order they are decoded (App.jsx 104-109,
\* leetcode-daily.js 130-135)
Entities ==
    << << << "&","n","b","s","p",";" >>,     << " " >> >>,
       << << "&","l","t",";" >>,             << "<" >> >>,
       << << "&","g","t",";" >>,             << ">" >> >>,
       << << "&","a","m","p",";" >>,         << "&" >> >>,
       << << "&","q","u","o","t",";" >>,     << "\"" >> >>,
       << << "&","#","3","9",";" >>,         << "'" >> >> >>

\* App.jsx 97-109: the tags and entities of s replaced
replaceMarkup(s) ==
    replaceEach(stripTags(replaceEach(s, CommonTags)), Entities)

\* leetcode-daily.js 108-135
LeetCodeDaily_replaceMarkup(s) ==
    replaceEach(stripTags(replaceBr(replaceEach(s, CommonTags \o ScriptTags))),
                Entities)

\* App.jsx 94-112; html is null or a string
cleanHtmlContent(h) ==
    IF h.isNull \/ h.val = << >> THEN << >>
    ELSE Trim(collapseNewlines(replaceMarkup(h.val)))

\* leetcode-daily.js 105-138
LeetCodeDaily_cleanHtmlContent(h) ==
    IF h.isNull \/ h.val = << >> THEN << >>
    ELSE Trim(collapseNewlines(LeetCodeDaily_replaceMarkup(h.val)))

----------------------------------------------------------------------------
(* App.jsx: the constants, the token-format check, the repository choice   *)

MODES == [ LEETCODE  |-> "LeetCode-Daily",
           CODEFORCE |-> "CodeForce-Daily",
           RANDOM    |-> "Random Generation",
           CUSTOM    |-> "Custom Build" ]

ModeSet == { MODES.LEETCODE, MODES.CODEFORCE, MODES.RANDOM, MODES.CUSTOM }

\* App.jsx 12-19
LANGUAGES == [ PYTHON |-> "python", CPP |-> "cpp", JAVA |-> "java",
               JAVASCRIPT |-> "javascript", GO |-> "go", RUST |-> "rust" ]

\* {36,} of the token pattern
PatBodyMin == 36
\* gh[pousr]_ of the token pattern
PatPrefixLen == 4

\* [A-Za-z0-9_]
WordChars == Lower \cup Upper \cup Digits \cup { "_" }

\* a mutant of validGitHubPAT: the pattern without its closing $, which
\* accepts anything after the first 36 body characters
validGitHubPAT_NoEnd(token) ==
    /\ Len(token) >= PatPrefixLen + PatBodyMin
    /\ token[1] = "g"
    /\ token[2] = "h"
    /\ token[3] \in { "p", "o", "u", "s", "r" }
    /\ token[4] = "_"
    /\ \A i \in (PatPrefixLen + 1)..(PatPrefixLen + PatBodyMin) :
         token[i] \in WordChars

\* /^gh[pousr]_[A-Za-z0-9_]{36,}$/.test(githubToken): anchored at both ends,
\* with no m flag, so $ is the end of the input
validGitHubPAT(token) ==
    /\ Len(token) >= PatPrefixLen + PatBodyMin
    /\ token[1] = "g"
    /\ token[2] = "h"
    /\ token[3] \in { "p", "o", "u", "s", "r" }
    /\ token[4] = "_"
    /\ \A i \in (PatPrefixLen + 1)..Len(token) : token[i] \in WordChars

RepoDSA == << "D","S","A" >>
RepoArchived == << "G","i","t","E","x","p","r","e","s","s","-",
                   "A","r","c","h","i","v","e","d" >>

\* a mutant of determineRepository: the daily modes are tested before the
\* override
determineRepository_ModeFirst(override, m, customRepoName) ==
    IF m \in { MODES.LEETCODE, MODES.CODEFORCE } THEN RepoDSA
    ELSE IF override # << >> THEN override
    ELSE IF m = MODES.CUSTOM
      THEN IF ~customRepoName.isNull /\ customRepoName.val # << >>
             THEN customRepoName.val
             ELSE RepoArchived
    ELSE RepoArchived

\* determineRepository(mode, customRepoName), with the repoOverride its
\* closure reads; an empty string and null are both falsy
determineRepository(override, m, customRepoName) ==
    IF override # << >> THEN override
    ELSE IF m \in { MODES.LEETCODE, MODES.CODEFORCE } THEN RepoDSA
    ELSE IF m = MODES.CUSTOM
      THEN IF ~customRepoName.isNull /\ customRepoName.val # << >>
             THEN customRepoName.val
             ELSE RepoArchived
    ELSE RepoArchived

----------------------------------------------------------------------------
(* App.jsx: parseCustomBuildResponse                                       *)

RepoMarker == << "R","E","P","O","_","N","A","M","E",":" >>
CodeStart  == << "-","-","-","C","O","D","E","_","S","T","A","R","T","-","-","-" >>
CodeEnd    == << "-","-","-","C","O","D","E","_","E","N","D","-","-","-" >>

\* [a-z0-9-] under the i flag
RepoNameChars == Lower \cup Upper \cup Digits \cup { "-" }

\* greedy [a-z0-9-]+ from position i: the position after the last character
\* of the run (i itself when the run is empty)
RECURSIVE SkipRepoName(_, _)
SkipRepoName(s, i) ==
    IF i <= Len(s) /\ s[i] \in RepoNameChars THEN SkipRepoName(s, i + 1) ELSE i

\* response.match(/REPO_NAME:\s*([a-z0-9-]+)/i): the capture group of the
\* leftmost match, or null.  After the greedy \s* the next character is no
\* white space, so giving white space back never helps the group to match.
RepoMatchAt(s, i) ==
    /\ MatchAtCI(s, i, RepoMarker)
    /\ LET b == SkipWs(s, i + Len(RepoMarker)) IN SkipRepoName(s, b) > b

repoMatch(s) ==
    LET at == { i \in 1..Len(s) : RepoMatchAt(s, i) } IN
    IF at = {} THEN null
    ELSE LET i == Min(at)
             b == SkipWs(s, i + Len(RepoMarker))
         IN  Some(SubSeq(s, b, SkipRepoName(s, b) - 1))

\* response.match(/---CODE_START---\s*([\s\S]*?)\s*---CODE_END---/): from the
\* start sentinel at i, \s* runs to b; the lazy group then grows from b one
\* character at a time until \s*---CODE_END--- matches behind it
CodeGroupEnds(s, b) ==
    { p \in b..(Len(s) + 1) : MatchAt(s, SkipWs(s, p), CodeEnd) }

CodeMatchAt(s, i) ==
    /\ MatchAt(s, i, CodeStart)
    /\ CodeGroupEnds(s, SkipWs(s, i + Len(CodeStart))) # {}

Max(S) == CHOOSE x \in S : \A y \in S : x >= y

\* a mutant of codeMatch: the group is greedy, ([\s\S]*), and runs to the
\* last end sentinel
codeMatch_Greedy(s) ==
    LET at == { i \in 1..Len(s) : CodeMatchAt(s, i) } IN
    IF at = {} THEN null
    ELSE LET i == Min(at)
             b == SkipWs(s, i + Len(CodeStart))
             p == Max(CodeGroupEnds(s, b))
         IN  Some(SubSeq(s, b, p - 1))

codeMatch(s) ==
    LET at == { i \in 1..Len(s) : CodeMatchAt(s, i) } IN
    IF at = {} THEN null
    ELSE LET i == Min(at)
             b == SkipWs(s, i + Len(CodeStart))
             p == Min(CodeGroupEnds(s, b))
         IN  Some(SubSeq(s, b, p - 1))

\* a mutant of parseCustomBuildResponse: the fallback keeps the name found
parseCustomBuildResponse_NameInFallback(resp) ==
    LET rm == repoMatch(resp)
        cm == codeMatch(resp)
    IN  [ repoName |-> IF ~rm.isNull THEN Some(Trim(rm.val)) ELSE null,
          code     |-> IF ~cm.isNull THEN Trim(cm.val) ELSE Trim(resp) ]

parseCustomBuildResponse(resp) ==
    LET rm == repoMatch(resp)
        cm == codeMatch(resp)
    IN  IF ~cm.isNull
          THEN [ repoName |-> IF ~rm.isNull THEN Some(Trim(rm.val)) ELSE null,
                 code     |-> Trim(cm.val) ]
          \* Fallback if format not followed
          ELSE [ repoName |-> null,
                 code     |-> Trim(resp) ]

----------------------------------------------------------------------------
(* The deterministic daily selection: CodeforcesDaily.pickDailyProblem of  *)
(* the script and the same lines inside fetchCodeforcesDaily of the UI     *)

\* n written with w digits, zero-padded
RECURSIVE Pad(_, _)
Pad(n, w) ==
    IF w = 0 THEN << >> ELSE Append(Pad(n \div 10, w - 1), DigitSeq[(n % 10) + 1])

\* Date.prototype.toISOString: YYYY-MM-DDTHH:mm:ss.sssZ
toISOString(d) ==
    Pad(d.year, 4) \o << "-" >> \o Pad(d.month, 2) \o << "-" >> \o Pad(d.day, 2)
      \o << "T" >> \o Pad(d.hour, 2) \o << ":" >> \o Pad(d.minute, 2)
      \o << ":" >> \o Pad(d.second, 2) \o << "." >> \o Pad(d.ms, 3) \o << "Z" >>

\* String.prototype.slice(from, to), 0 <= from <= to
slice(s, from, to) ==
    SubSeq(s, from + 1, IF to < Len(s) THEN to ELSE Len(s))

\* a mutant of charCodeAt: a digit counts as its value, not as its code
charCodeAt_DigitValue(c) ==
    CASE c \in Digits -> (CHOOSE i \in DOMAIN DigitSeq : DigitSeq[i] = c) - 1
      [] c = "-" -> 45
      [] c = "." -> 46
      [] c = ":" -> 58
      [] c = "T" -> 84
      [] c = "Z" -> 90

\* c.charCodeAt(0), for the characters an ISO timestamp is made of
charCodeAt(c) ==
    CASE c \in Digits -> 47 + (CHOOSE i \in DOMAIN DigitSeq : DigitSeq[i] = c)
      [] c = "-" -> 45
      [] c = "." -> 46
      [] c = ":" -> 58
      [] c = "T" -> 84
      [] c = "Z" -> 90

\* [...today].reduce((a, c) => a + c.charCodeAt(0), 0)
RECURSIVE reduceCodes(_, _)
reduceCodes(s, a) ==
    IF s = << >> THEN a ELSE reduceCodes(Tail(s), a + charCodeAt(Head(s)))

\* a JavaScript number that may be NaN
NaN == [isNaN |-> TRUE, val |-> 0]
Num(k) == [isNaN |-> FALSE, val |-> k]

\* a % b: NaN when b is 0
Rem(a, b) == IF b = 0 THEN NaN ELSE Num(a % b)

\* the value an array read yields when there is no such element
undefined == [isUndefined |-> TRUE]

\* arr[idx]: undefined when idx is NaN or out of range
At(arr, idx) ==
    IF idx.isNaN \/ idx.val >= Len(arr) THEN undefined ELSE arr[idx.val + 1]

\* a mutant of today: the timestamp is not cut down to its date
today_NoSlice == toISOString(now)

\* new Date().toISOString().slice(0, 10)
today == slice(toISOString(now), 0, 10)

\* seed % problems.length, with seed the sum over today
dailyIndex(list) == Rem(reduceCodes(today, 0), Len(list))

\* part_000 49-53
pickDailyProblem(list) == At(list, dailyIndex(list))

\* formatProblem(problem): reading a field of undefined throws a TypeError
formatProblem(problem) ==
    IF problem = undefined
      THEN [ threw |-> "TypeError", value |-> undefined ]
      ELSE [ threw |-> "",
             value |-> [ isUndefined |-> FALSE,
                         contestId |-> problem.contestId,
                         index |-> problem.index,
                         title |-> problem.name ] ]

\* App.jsx 71-92, from the parsed response body on: the status check, the
\* selection and the record built from the selected problem
fetchCodeforcesDaily(data) ==
    IF data.status # "OK"
      THEN [ threw |-> "Codeforces API error", value |-> undefined ]
      ELSE formatProblem(At(data.problems, dailyIndex(data.problems)))


----------------------------------------------------------------------------
(* The inputs of the UI model *)

\* a token: prefix, then n body characters, the one at badAt (if any) being bad
MkToken(prefix, n, badAt, bad) ==
    prefix \o [ i \in 1..n |-> IF i = badAt THEN bad ELSE "a" ]

GoodToken  == MkToken(<< "g","h","p","_" >>, PatBodyMin, 0, "a")
ShortToken == MkToken(<< "g","h","p","_" >>, PatBodyMin - 1, 0, "a")

UiTokens    == { ShortToken, GoodToken }
UiKeys      == { << >>, << "k" >> }
UiPrompts   == { << >>, << " " >>, << "a" >> }
UiLanguages == { LANGUAGES.PYTHON, LANGUAGES.CPP }
UiOverrides == { << >>, << "r" >> }

RepoNameMyApp == << "m","y","-","a","p","p" >>

\* what the AI service may answer: the requested format, or plain code
RespFormatted ==
    RepoMarker \o << " " >> \o RepoNameMyApp \o << "\n" >>
      \o CodeStart \o << "\n", "x", "\n" >> \o CodeEnd
RespPlain == << "x", "\n" >>
UiResponses == { RespFormatted, RespPlain }

\* the problems of a Codeforces answer
Candidates ==
    { [ isUndefined |-> FALSE, contestId |-> 1, index |-> "A", name |-> "p" ],
      [ isUndefined |-> FALSE, contestId |-> 2, index |-> "B", name |-> "q" ] }

ProblemLists == UNION { [ 1..n -> Candidates ] : n \in 0..MaxProblems }

\* the clock: two times of day on each of three dates
Clocks ==
    { [ year |-> 2024, month |-> md[1], day |-> md[2],
        hour |-> hm[1], minute |-> hm[2], second |-> hm[2], ms |-> hm[2] ] :
        md \in { << 1, 15 >>, << 5, 11 >>, << 12, 31 >> },
        hm \in { << 0, 0 >>, << 23, 59 >> } }

----------------------------------------------------------------------------
(* App.jsx: the component's handlers                                        *)

\* the external operations, by the name of the function start() awaits
OpFetchLeetCode   == "fetchLeetCodeDaily"
OpFetchCodeforces == "fetchCodeforcesDaily"
OpGenerate        == "generateContent"
OpGetUser         == "users.getAuthenticated"
OpGetRepo         == "repos.get"
OpCreateRepo      == "repos.createForAuthenticatedUser"
OpCommit          == "repos.createOrUpdateFileContents"

Call(op, repo) == [ ev |-> "call", op |-> op, repo |-> repo, res |-> "" ]
Ret(op, res)   == [ ev |-> "ret",  op |-> op, repo |-> << >>, res |-> res ]

\* the lines log() writes, by kind
ValidationLines == { "Invalid GitHub PAT format.",
                     "Gemini API Key is required.",
                     "Prompt is required for Custom Build mode." }
SavedLine == "Credentials saved locally."
ErrorLine == "Error"

\* lines written outside a run that are in the terminal
IdleLines(l) ==
    Len(SelectSeq(l, LAMBDA x : x \in ValidationLines \cup { SavedLine }))

\* the statement of the specification's example
ExampleHtml ==
    << "<","p",">","H","e","l","l","o"," ","<","s","t","r","o","n","g",">","w","o","r","l","d","<","/","s","t","r","o","n","g",">","<","/","p",">" >>

NoProblem == [ isNull |-> TRUE, title |-> "", description |-> << >> ]

\* what a suspended start() holds on to: the mode and repoOverride of the
\* render it was called in (prompt, geminiKey and githubToken are captured
\* too, and only handed to the external calls) and its locals; NoRun when no
\* invocation is suspended
NoRun == [ mode |-> "", repoOverride |-> << >>,
           problemData |-> NoProblem, code |-> << >>,
           customRepoName |-> null, targetRepo |-> << >> ]

\* a mutant of setGeminiKey: the key typed is stored as it is typed
setGeminiKey_WriteThrough ==
    /\ \E k \in UiKeys :
         /\ geminiKey' = k
         /\ localStorage' = [ localStorage EXCEPT !.GEMINI_API_KEY = k ]
    /\ UNCHANGED << mode, language, prompt, githubToken, repoOverride, isLoading,
                    logs, pc, run, trace, invocation >>
    /\ UNCHANGED << dailyVars, patVars, parseVars, htmlVars, saveVars >>

\* onChange / onClick of the inputs (App.jsx 582, 590, 609-633, 659, 674)
setGeminiKey ==
    /\ \E k \in UiKeys : geminiKey' = k
    /\ UNCHANGED << mode, language, prompt, githubToken, repoOverride, isLoading, logs,
                    localStorage, pc, run, trace, invocation >>
    /\ UNCHANGED << dailyVars, patVars, parseVars, htmlVars, saveVars >>

setGithubToken ==
    /\ \E t \in UiTokens : githubToken' = t
    /\ UNCHANGED << mode, language, prompt, geminiKey, repoOverride, isLoading, logs,
                    localStorage, pc, run, trace, invocation >>
    /\ UNCHANGED << dailyVars, patVars, parseVars, htmlVars, saveVars >>

\* App.jsx 643: the language select (the language is read when the prompt
\* and the file name are built, and only handed to the external calls)
setLanguage ==
    /\ \E l \in UiLanguages : language' = l
    /\ UNCHANGED << mode, prompt, geminiKey, githubToken, repoOverride, isLoading,
                    logs, localStorage, pc, run, trace, invocation >>
    /\ UNCHANGED << dailyVars, patVars, parseVars, htmlVars, saveVars >>

setMode ==
    /\ \E m \in ModeSet : mode' = m
    /\ UNCHANGED << language, prompt, geminiKey, githubToken, repoOverride, isLoading,
                    logs, localStorage, pc, run, trace, invocation >>
    /\ UNCHANGED << dailyVars, patVars, parseVars, htmlVars, saveVars >>

setRepoOverride ==
    /\ \E r \in UiOverrides : repoOverride' = r
    /\ UNCHANGED << mode, language, prompt, geminiKey, githubToken, isLoading, logs,
                    localStorage, pc, run, trace, invocation >>
    /\ UNCHANGED << dailyVars, patVars, parseVars, htmlVars, saveVars >>

\* the textarea is rendered in Custom Build and Random Generation only
setPrompt ==
    /\ mode \in { MODES.CUSTOM, MODES.RANDOM }
    /\ \E p \in UiPrompts : prompt' = p
    /\ UNCHANGED << mode, language, geminiKey, githubToken, repoOverride, isLoading,
                    logs, localStorage, pc, run, trace, invocation >>
    /\ UNCHANGED << dailyVars, patVars, parseVars, htmlVars, saveVars >>

\* App.jsx 220-224 (followed while the terminal holds fewer than MaxLogs lines)
saveSettings ==
    /\ Len(logs) < MaxLogs
    /\ localStorage' = [ GEMINI_API_KEY |-> geminiKey, GITHUB_PAT |-> githubToken ]
    /\ logs' = Append(logs, SavedLine)
    /\ UNCHANGED << mode, language, prompt, geminiKey, githubToken, repoOverride,
                    isLoading, pc, run, trace, invocation >>
    /\ UNCHANGED << dailyVars, patVars, parseVars, htmlVars, saveVars >>

\* the awaited op settled with res and start() goes on to await next
Resume(op, res, next, repo) ==
    /\ trace' = trace \o << Ret(op, res), Call(next, repo) >>
    /\ pc' = next

\* a mutant of Catch: there is no finally block, and isLoading is reset on
\* the success path only
Catch_NoFinally(op, res) ==
    /\ trace' = Append(trace, Ret(op, res))
    /\ logs' = Append(logs, ErrorLine)
    /\ isLoading' = isLoading
    /\ pc' = "idle"
    /\ run' = NoRun
    /\ invocation' = "failed"

\* catch (error) { log(...) } finally { setIsLoading(false) } of start()
Catch(op, res) ==
    /\ trace' = Append(trace, Ret(op, res))
    /\ logs' = Append(logs, ErrorLine)
    /\ isLoading' = FALSE
    /\ pc' = "idle"
    /\ run' = NoRun
    /\ invocation' = "failed"

\* a mutant of promptRequired: the prompt is compared without trim()
promptRequired_NoTrim(m, p) == m = MODES.CUSTOM /\ p = << >>

\* App.jsx 272: mode === MODES.CUSTOM && !prompt.trim()
promptRequired(m, p) == m = MODES.CUSTOM /\ Trim(p) = << >>

\* App.jsx 261-301, up to the first await (a rejection is followed while the
\* terminal holds fewer than MaxLogs lines written outside a run)
start ==
    /\ ~isLoading
    /\ pc = "idle"
    /\ IF ~validGitHubPAT(githubToken) \/ geminiKey = << >>
          \/ promptRequired(mode, prompt)
         THEN /\ IdleLines(logs) < MaxLogs
              /\ logs' = Append(logs,
                   IF ~validGitHubPAT(githubToken)
                     THEN "Invalid GitHub PAT format."
                   ELSE IF geminiKey = << >>
                     THEN "Gemini API Key is required."
                   ELSE "Prompt is required for Custom Build mode.")
              /\ trace' = << >>
              /\ invocation' = "rejected"
              /\ UNCHANGED << isLoading, pc, run >>
         ELSE /\ isLoading' = TRUE
              /\ invocation' = "running"
              /\ run' = [ NoRun EXCEPT !.mode = mode,
                                       !.repoOverride = repoOverride ]
              /\ IF mode = MODES.LEETCODE
                   THEN /\ logs' = << "Fetching today's LeetCode problem..." >>
                        /\ trace' = << Call(OpFetchLeetCode, << >>) >>
                        /\ pc' = OpFetchLeetCode
                 ELSE IF mode = MODES.CODEFORCE
                   THEN /\ logs' = << "Fetching today's Codeforces problem..." >>
                        /\ trace' = << Call(OpFetchCodeforces, << >>) >>
                        /\ pc' = OpFetchCodeforces
                 ELSE   /\ logs' = << "Generating code solution..." >>
                        /\ trace' = << Call(OpGenerate, << >>) >>
                        /\ pc' = OpGenerate
    /\ UNCHANGED << mode, language, prompt, geminiKey, githubToken, repoOverride,
                    localStorage >>
    /\ UNCHANGED << dailyVars, patVars, parseVars, htmlVars, saveVars >>

\* App.jsx 287-296 and 304-313: fetchLeetCodeDaily() settles.  A null daily
\* challenge makes leetcodeData.question throw inside the try block.
fetchLeetCodeDailySettles ==
    /\ pc = OpFetchLeetCode
    /\ \E res \in { "ok", "null", "error" } :
         IF res = "ok"
           THEN /\ run' = [ run EXCEPT !.problemData =
                                  [ isNull |-> FALSE, title |-> "two-sum",
                                    description |->
                                      cleanHtmlContent(Some(ExampleHtml)) ] ]
                /\ logs' = logs \o << "Loaded", "Generating code solution..." >>
                /\ Resume(OpFetchLeetCode, res, OpGenerate, << >>)
                /\ UNCHANGED << isLoading, invocation >>
           ELSE Catch(OpFetchLeetCode, res)
    /\ UNCHANGED << mode, language, prompt, geminiKey, githubToken, repoOverride,
                    localStorage >>
    /\ UNCHANGED << dailyVars, patVars, parseVars, htmlVars, saveVars >>

\* App.jsx 299-300 and 304-313: fetchCodeforcesDaily() settles: the request
\* fails, or its body is parsed and fetchCodeforcesDaily runs on it
fetchCodeforcesDailySettles ==
    /\ pc = OpFetchCodeforces
    /\ \/ Catch(OpFetchCodeforces, "error")
       \/ \E st \in { "OK", "FAILED" }, list \in ProblemLists :
            LET r == fetchCodeforcesDaily([ status |-> st, problems |-> list ]) IN
            IF r.threw = ""
              THEN /\ run' = [ run EXCEPT !.problemData =
                                     [ isNull |-> FALSE, title |-> r.value.title,
                                       description |-> << >> ] ]
                   /\ logs' = logs \o << "Loaded", "Generating code solution..." >>
                   /\ Resume(OpFetchCodeforces, "ok", OpGenerate, << >>)
                   /\ UNCHANGED << isLoading, invocation >>
              ELSE Catch(OpFetchCodeforces, r.threw)
    /\ UNCHANGED << mode, language, prompt, geminiKey, githubToken, repoOverride,
                    localStorage >>
    /\ UNCHANGED << dailyVars, patVars, parseVars, htmlVars, saveVars >>

\* App.jsx 314-337: generateContent() settles
generateContentSettles ==
    /\ pc = OpGenerate
    /\ \/ Catch(OpGenerate, "error")
       \/ \E resp \in UiResponses :
            LET isCustom == run.mode = MODES.CUSTOM
                p        == parseCustomBuildResponse(resp)
                code     == IF isCustom THEN p.code ELSE resp
                name     == IF isCustom THEN p.repoName ELSE null
                target   == determineRepository(run.repoOverride, run.mode, name)
            IN  /\ run' = [ run EXCEPT !.code = code, !.customRepoName = name,
                                       !.targetRepo = target ]
                /\ logs' = logs
                     \o (IF ~name.isNull /\ name.val # << >>
                           THEN << "Suggested repository" >> ELSE << >>)
                     \o << "Code generated", "Target repository",
                           "Connecting to GitHub..." >>
                /\ Resume(OpGenerate, "ok", OpGetUser, << >>)
                /\ UNCHANGED << isLoading, invocation >>
    /\ UNCHANGED << mode, language, prompt, geminiKey, githubToken, repoOverride,
                    localStorage >>
    /\ UNCHANGED << dailyVars, patVars, parseVars, htmlVars, saveVars >>

\* App.jsx 337-342: users.getAuthenticated() settles
getAuthenticatedSettles ==
    /\ pc = OpGetUser
    /\ \/ Catch(OpGetUser, "error")
       \/ /\ Resume(OpGetUser, "ok", OpGetRepo, run.targetRepo)
          /\ UNCHANGED << logs, isLoading, run, invocation >>
    /\ UNCHANGED << mode, language, prompt, geminiKey, githubToken, repoOverride,
                    localStorage >>
    /\ UNCHANGED << dailyVars, patVars, parseVars, htmlVars, saveVars >>

\* App.jsx 341-373: repos.get() settles.  The inner catch has no binding and
\* no test of the error: whatever made repos.get() fail, the repository is
\* created.
reposGetSettles ==
    /\ pc = OpGetRepo
    /\ \E res \in { "ok", "404", "error" } :
         IF res = "ok"
           THEN /\ logs' = Append(logs, "Repository found")
                /\ Resume(OpGetRepo, res, OpCommit, run.targetRepo)
           ELSE /\ logs' = logs
                /\ Resume(OpGetRepo, res, OpCreateRepo, run.targetRepo)
    /\ UNCHANGED << mode, language, prompt, geminiKey, githubToken, repoOverride,
                    localStorage, isLoading, run, invocation >>
    /\ UNCHANGED << dailyVars, patVars, parseVars, htmlVars, saveVars >>

\* a mutant of createForAuthenticatedUserSettles: a failed creation is
\* swallowed like a failed repos.get(), and the file is committed all the same
createForAuthenticatedUserSettles_Swallow ==
    /\ pc = OpCreateRepo
    /\ \E res \in { "ok", "error" } :
          /\ logs' = Append(logs, "Repository created")
          /\ Resume(OpCreateRepo, res, OpCommit, run.targetRepo)
          /\ UNCHANGED << isLoading, run, invocation >>
    /\ UNCHANGED << mode, language, prompt, geminiKey, githubToken, repoOverride,
                    localStorage >>
    /\ UNCHANGED << dailyVars, patVars, parseVars, htmlVars, saveVars >>

\* App.jsx 345-373: repos.createForAuthenticatedUser() settles
createForAuthenticatedUserSettles ==
    /\ pc = OpCreateRepo
    /\ \/ Catch(OpCreateRepo, "error")
       \/ /\ logs' = Append(logs, "Repository created")
          /\ Resume(OpCreateRepo, "ok", OpCommit, run.targetRepo)
          /\ UNCHANGED << isLoading, run, invocation >>
    /\ UNCHANGED << mode, language, prompt, geminiKey, githubToken, repoOverride,
                    localStorage >>
    /\ UNCHANGED << dailyVars, patVars, parseVars, htmlVars, saveVars >>

\* App.jsx 367-383: repos.createOrUpdateFileContents() settles
createOrUpdateFileContentsSettles ==
    /\ pc = OpCommit
    /\ \/ Catch(OpCommit, "error")
       \/ /\ trace' = Append(trace, Ret(OpCommit, "ok"))
          /\ logs' = logs \o << "Successfully committed", "View at" >>
          /\ isLoading' = FALSE
          /\ pc' = "idle"
          /\ run' = NoRun
          /\ invocation' = "succeeded"
    /\ UNCHANGED << mode, language, prompt, geminiKey, githubToken, repoOverride,
                    localStorage >>
    /\ UNCHANGED << dailyVars, patVars, parseVars, htmlVars, saveVars >>

Next ==
    \/ setGeminiKey
    \/ setGithubToken
    \/ setMode
    \/ setLanguage
    \/ setRepoOverride
    \/ setPrompt
    \/ saveSettings
    \/ start
    \/ fetchLeetCodeDailySettles
    \/ fetchCodeforcesDailySettles
    \/ generateContentSettles
    \/ getAuthenticatedSettles
    \/ reposGetSettles
    \/ createForAuthenticatedUserSettles
    \/ createOrUpdateFileContentsSettles

\* a selection made: by which function, at what time, on which calendar
\* date, over how many problems, the index computed, and what came back
NoDaily == [ made |-> FALSE, by |-> "", at |-> << >>, date |-> << >>, n |-> 0,
             index |-> NaN, value |-> undefined, threw |-> "" ]
NoParse == [ done |-> FALSE, repoName |-> null, code |-> << >> ]
NoClean == [ done |-> FALSE, by |-> "", text |-> << >> ]
\* a local that holds nothing yet, a file that was not written
Absent == [ absent |-> TRUE ]
\* one invocation of LeetCodeDaily.saveToFile: where it is suspended, its
\* locals, and whether a fetch of it failed
NoSave == [ pc |-> "idle", data |-> Absent, daily |-> Absent,
            details |-> Absent, failed |-> FALSE ]
NoFiles == [ txt |-> Absent, json |-> Absent ]
\* a file that was written, with what was written to it
Written(c) == [ absent |-> FALSE, content |-> c ]

\* the harness variables at rest
InitDailyIdle ==
    /\ now = [ year |-> 2024, month |-> 1, day |-> 15,
               hour |-> 0, minute |-> 0, second |-> 0, ms |-> 0 ]
    /\ problems = << >>
    /\ daily = NoDaily
    /\ prevDaily = NoDaily
InitPatIdle ==
    /\ patResult = "unchecked"
InitParseIdle ==
    /\ response = << >>
    /\ parsed = NoParse
InitHtmlIdle ==
    /\ html = null
    /\ cleaned = NoClean
InitSaveIdle ==
    /\ remote = [ day |-> 1, likes |-> 0 ]
    /\ save = NoSave
    /\ files = NoFiles

\* useEffect of App.jsx 209-214 has run: the fields hold the stored values
InitUi ==
    /\ localStorage \in [ GEMINI_API_KEY : UiKeys, GITHUB_PAT : UiTokens ]
    /\ geminiKey = localStorage.GEMINI_API_KEY
    /\ githubToken = localStorage.GITHUB_PAT
    /\ mode = MODES.RANDOM
    /\ language = LANGUAGES.PYTHON
    /\ prompt = << >>
    /\ repoOverride = << >>
    /\ isLoading = FALSE
    /\ logs = << >>
    /\ pc = "idle"
    /\ run = NoRun
    /\ trace = << >>
    /\ invocation = "none"

Init ==
    /\ InitUi /\ InitDailyIdle /\ InitPatIdle /\ InitParseIdle
    /\ InitHtmlIdle /\ InitSaveIdle

Spec == Init /\ [][Next]_vars


----------------------------------------------------------------------------
(* The daily selection, run on its own: the Codeforces script and           *)
(* fetchCodeforcesDaily of the UI select from the fetched list as the clock *)
(* advances                                                                 *)

\* the UI at rest, on a first visit
InitUiIdle ==
    /\ localStorage = [ GEMINI_API_KEY |-> << >>, GITHUB_PAT |-> << >> ]
    /\ geminiKey = << >>
    /\ githubToken = << >>
    /\ mode = MODES.RANDOM
    /\ language = LANGUAGES.PYTHON
    /\ prompt = << >>
    /\ repoOverride = << >>
    /\ isLoading = FALSE
    /\ logs = << >>
    /\ pc = "idle"
    /\ run = NoRun
    /\ trace = << >>
    /\ invocation = "none"

Stamp(d) == << d.month, d.day, d.hour, d.minute >>

Before(a, b) ==
    \E k \in 1..4 : a[k] < b[k] /\ \A j \in 1..(k - 1) : a[j] = b[j]

Selection(by, r) ==
    [ made |-> TRUE, by |-> by, at |-> toISOString(now),
      date |-> SubSeq(toISOString(now), 1, 10),
      n |-> Len(problems), index |-> dailyIndex(problems),
      value |-> r.value, threw |-> r.threw ]

\* time passes
tick ==
    /\ \E c \in Clocks : Before(Stamp(now), Stamp(c)) /\ now' = c
    /\ UNCHANGED << problems, daily, prevDaily >>
    /\ UNCHANGED << uiVars, patVars, parseVars, htmlVars, saveVars >>

\* part_000 40-46, App.jsx 72-79: the problem set is fetched (again)
getAllProblems ==
    /\ \E list \in ProblemLists : problems' = list
    /\ daily' = NoDaily
    /\ prevDaily' = NoDaily
    /\ UNCHANGED now
    /\ UNCHANGED << uiVars, patVars, parseVars, htmlVars, saveVars >>

\* part_000 49-53: pickDailyProblem(problems) is called and returns
pickDailyProblemReturns ==
    /\ daily' = Selection("pickDailyProblem",
                          [ threw |-> "", value |-> pickDailyProblem(problems) ])
    /\ prevDaily' = daily
    /\ UNCHANGED << now, problems >>
    /\ UNCHANGED << uiVars, patVars, parseVars, htmlVars, saveVars >>

\* part_000 67-76: fetchDailyProblem() from the fetched list on
fetchDailyProblemReturns ==
    /\ daily' = Selection("fetchDailyProblem",
                          formatProblem(pickDailyProblem(problems)))
    /\ prevDaily' = daily
    /\ UNCHANGED << now, problems >>
    /\ UNCHANGED << uiVars, patVars, parseVars, htmlVars, saveVars >>

\* App.jsx 79-91: fetchCodeforcesDaily() from the fetched list on
fetchCodeforcesDailyReturns ==
    /\ daily' = Selection("fetchCodeforcesDaily",
                          fetchCodeforcesDaily([ status |-> "OK",
                                                 problems |-> problems ]))
    /\ prevDaily' = daily
    /\ UNCHANGED << now, problems >>
    /\ UNCHANGED << uiVars, patVars, parseVars, htmlVars, saveVars >>

InitDaily ==
    /\ InitUiIdle /\ InitPatIdle /\ InitParseIdle
    /\ InitHtmlIdle /\ InitSaveIdle
    /\ now \in Clocks
    /\ problems \in ProblemLists
    /\ daily = NoDaily
    /\ prevDaily = NoDaily

NextDaily ==
    \/ tick
    \/ getAllProblems
    \/ pickDailyProblemReturns
    \/ fetchDailyProblemReturns
    \/ fetchCodeforcesDailyReturns

SpecDaily == InitDaily /\ [][NextDaily]_vars

----------------------------------------------------------------------------
(* The token-format check, run on its own over a family of tokens          *)

PatPrefixes ==
    { << "g","h","p","_" >>, << "g","h","o","_" >>, << "g","h","u","_" >>,
      << "g","h","s","_" >>, << "g","h","r","_" >>,
      << "g","h","a","_" >>, << "g","h","P","_" >>, << "G","h","p","_" >>,
      << "g","h","p","-" >>, << "g","h","_" >>, << "x","g","h","p","_" >>,
      << >> }

PatBodyLens == { 0 } \cup ((PatBodyMin - 2)..(PatBodyMin + MaxExtra))

\* a body of n characters of the class, all four kinds of them in turn, with
\* the character at badAt (if any) replaced by bad
PatBody(n, badAt, bad) ==
    [ i \in 1..n |-> IF i = badAt THEN bad ELSE << "a", "Z", "0", "_" >>[(i % 4) + 1] ]

PatTokens ==
    { pre \o PatBody(n, 0, "a") : pre \in PatPrefixes, n \in PatBodyLens }
    \cup
    { pre \o PatBody(n, badAt, bad) :
        pre \in PatPrefixes, n \in PatBodyLens \ { 0 },
        badAt \in { 1, 2, PatBodyMin, PatBodyMin + 1 }, bad \in { "-", " ", "\n" } }

\* the token field is filled in
typeToken ==
    /\ patResult # "unchecked"
    /\ \E t \in { GoodToken, ShortToken } : githubToken' = t
    /\ patResult' = "unchecked"
    /\ UNCHANGED << mode, language, prompt, geminiKey, repoOverride, isLoading, logs,
                    localStorage, pc, run, trace, invocation >>
    /\ UNCHANGED << dailyVars, parseVars, htmlVars, saveVars >>

\* App.jsx 226: the component renders and tests the token
testToken ==
    /\ patResult = "unchecked"
    /\ patResult' = IF validGitHubPAT(githubToken) THEN "valid" ELSE "invalid"
    /\ UNCHANGED << uiVars, dailyVars, parseVars, htmlVars, saveVars >>

InitPat ==
    /\ InitDailyIdle /\ InitParseIdle /\ InitHtmlIdle /\ InitSaveIdle
    /\ localStorage \in [ GEMINI_API_KEY : { << >> }, GITHUB_PAT : PatTokens ]
    /\ geminiKey = localStorage.GEMINI_API_KEY
    /\ githubToken = localStorage.GITHUB_PAT
    /\ mode = MODES.RANDOM
    /\ language = LANGUAGES.PYTHON
    /\ prompt = << >>
    /\ repoOverride = << >>
    /\ isLoading = FALSE
    /\ logs = << >>
    /\ pc = "idle"
    /\ run = NoRun
    /\ trace = << >>
    /\ invocation = "none"
    /\ patResult = "unchecked"

NextPat ==
    \/ typeToken
    \/ testToken

SpecPat == InitPat /\ [][NextPat]_vars

----------------------------------------------------------------------------
(* parseCustomBuildResponse, run on its own over a family of AI responses  *)

\* the pieces a response is put together from
Pieces ==
    { RepoMarker \o << " " >> \o RepoNameMyApp \o << "\n" >>,
      RepoMarker,
      << "A","p","p","-","2" >>,
      << " ", "\n" >>,
      CodeStart,
      CodeEnd,
      << " ", "x", " ", "=", " ", "1", "\n" >>,
      << "_" >> }

RECURSIVE Flatten(_)
Flatten(ps) == IF ps = << >> THEN << >> ELSE Head(ps) \o Flatten(Tail(ps))

Responses ==
    { Flatten(ps) : ps \in UNION { [ 1..k -> Pieces ] : k \in 0..MaxPieces } }

\* App.jsx 320: parseCustomBuildResponse(response) is called and returns
parseCustomBuildResponseReturns ==
    /\ ~parsed.done
    /\ LET r == parseCustomBuildResponse(response) IN
         parsed' = [ done |-> TRUE, repoName |-> r.repoName, code |-> r.code ]
    /\ UNCHANGED response
    /\ UNCHANGED << uiVars, dailyVars, patVars, htmlVars, saveVars >>

\* App.jsx 311-314: the next run's generateContent() returns its text
generateContentReturns ==
    /\ parsed.done
    /\ \E r \in UiResponses : response' = r
    /\ parsed' = NoParse
    /\ UNCHANGED << uiVars, dailyVars, patVars, htmlVars, saveVars >>

InitParse ==
    /\ InitUiIdle /\ InitDailyIdle /\ InitPatIdle
    /\ InitHtmlIdle /\ InitSaveIdle
    /\ response \in Responses
    /\ parsed = NoParse

NextParse ==
    \/ parseCustomBuildResponseReturns
    \/ generateContentReturns

SpecParse == InitParse /\ [][NextParse]_vars

----------------------------------------------------------------------------
(* cleanHtmlContent, run on its own over families of problem statements     *)

\* the tags a statement is put together from: those of the known vocabulary,
\* a tag with an attribute and an unknown tag
TagPieces ==
    { << "<","p","r","e",">" >>,
      << "<","/","p","r","e",">" >>,
      << "<","c","o","d","e",">" >>,
      << "<","/","c","o","d","e",">" >>,
      << "<","s","t","r","o","n","g",">" >>,
      << "<","/","s","t","r","o","n","g",">" >>,
      << "<","e","m",">" >>,
      << "<","/","e","m",">" >>,
      << "<","s","u","p",">" >>,
      << "<","/","s","u","p",">" >>,
      << "<","s","u","b",">" >>,
      << "<","l","i",">" >>,
      << "<","/","l","i",">" >>,
      << "<","u","l",">" >>,
      << "<","o","l",">" >>,
      << "<","p",">" >>,
      << "<","/","p",">" >>,
      << "<","b","r",">" >>,
      << "<","b","r"," ","/",">" >>,
      << "<","d","i","v",">" >>,
      << "<","/","d","i","v",">" >>,
      << "<","p"," ","c","l","a","s","s","=","x",">" >> }

\* text, newlines and tags that become newlines
LinePieces ==
    { << "a" >>,
      << "\n" >>,
      << "\n","\n" >>,
      << "<","/","p",">" >>,
      << "<","b","r",">" >> }

\* entities, and the text that follows "&amp;" in an escaped entity
EntityPieces ==
    { << "&","a","m","p",";" >>,
      << "&","l","t",";" >>,
      << "&","g","t",";" >>,
      << "&","q","u","o","t",";" >>,
      << "&","#","3","9",";" >>,
      << "&","n","b","s","p",";" >>,
      << "q","u","o","t",";" >>,
      << "#","3","9",";" >>,
      << "l","t",";" >>,
      << "a" >> }

SeqsUpTo(S, n) == UNION { [ 1..k -> S ] : k \in 0..n }

\* tags between two letters, lines, and entities
TagInputs    == { << "a" >> \o Flatten(ps) \o << "b" >> :
                    ps \in SeqsUpTo(TagPieces, MaxTags) }
LineInputs   == { Flatten(ps) : ps \in SeqsUpTo(LinePieces, MaxLines) }
EntityInputs == { Flatten(ps) : ps \in SeqsUpTo(EntityPieces, MaxEntities) }

HtmlInputs ==
    { null } \cup { Some(s) : s \in TagInputs \cup LineInputs \cup EntityInputs
                                     \cup { ExampleHtml } }

\* App.jsx 291: cleanHtmlContent(leetcodeData.question.content) returns
cleanHtmlContentReturns ==
    /\ ~cleaned.done
    /\ cleaned' = [ done |-> TRUE, by |-> "App.jsx",
                    text |-> cleanHtmlContent(html) ]
    /\ UNCHANGED html
    /\ UNCHANGED << uiVars, dailyVars, patVars, parseVars, saveVars >>

\* leetcode-daily.js 159, 240: this.cleanHtmlContent(details.content) returns
LeetCodeDaily_cleanHtmlContentReturns ==
    /\ ~cleaned.done
    /\ cleaned' = [ done |-> TRUE, by |-> "leetcode-daily.js",
                    text |-> LeetCodeDaily_cleanHtmlContent(html) ]
    /\ UNCHANGED html
    /\ UNCHANGED << uiVars, dailyVars, patVars, parseVars, saveVars >>

\* leetcode-daily.js 70-102: the next problem's details are fetched; the
\* content of a problem may be null
getProblemDetailsReturns ==
    /\ cleaned.done
    /\ \E h \in { null, Some(ExampleHtml) } : html' = h
    /\ cleaned' = NoClean
    /\ UNCHANGED << uiVars, dailyVars, patVars, parseVars, saveVars >>

InitHtml ==
    /\ InitUiIdle /\ InitDailyIdle /\ InitPatIdle /\ InitParseIdle
    /\ InitSaveIdle
    /\ html \in HtmlInputs
    /\ cleaned = NoClean

NextHtml ==
    \/ cleanHtmlContentReturns
    \/ LeetCodeDaily_cleanHtmlContentReturns
    \/ getProblemDetailsReturns

SpecHtml == InitHtml /\ [][NextHtml]_vars

----------------------------------------------------------------------------
(* The LeetCode script: one invocation of saveToFile against a remote       *)
(* service whose answers change as the day and the votes change             *)

\* what the service answers to questionOfToday (leetcode-daily.js 46-66): the
\* challenge of day d is problem number d
DailyOf(r) ==
    [ date |-> r.day, link |-> r.day, question |-> [ titleSlug |-> r.day ] ]

\* what the service answers to getQuestionDetail (leetcode-daily.js 71-101)
DetailsOf(titleSlug, r) ==
    [ questionFrontendId |-> titleSlug, title |-> titleSlug,
      likes |-> r.likes, content |-> Some(ExampleHtml) ]

\* leetcode-daily.js 141-198: the text, as the lines that carry a value of
\* daily or details
formatOutput(d, details) ==
    << << "LEETCODE DAILY CHALLENGE - ", d.date >>,
       << "Problem #", details.questionFrontendId >>,
       << "Title: ", details.title >>,
       << "Link: https://leetcode.com", d.link >>,
       << "Likes: ", details.likes >>,
       << "PROBLEM DESCRIPTION", LeetCodeDaily_cleanHtmlContent(details.content) >> >>

\* leetcode-daily.js 233-248: the record fetchTodaysProblem returns
ProblemData(d, details) ==
    [ date |-> d.date,
      link |-> << "https://leetcode.com", d.link >>,
      problem |-> [ id |-> details.questionFrontendId,
                    title |-> details.title,
                    description |-> LeetCodeDaily_cleanHtmlContent(details.content),
                    likes |-> details.likes ] ]

\* the day's challenge changes on the service
midnight ==
    /\ remote.day < MaxDays
    /\ remote' = [ remote EXCEPT !.day = @ + 1 ]
    /\ UNCHANGED << save, files >>
    /\ UNCHANGED << uiVars, dailyVars, patVars, parseVars, htmlVars >>

\* somebody likes a problem
vote ==
    /\ remote.likes < MaxLikes
    /\ remote' = [ remote EXCEPT !.likes = @ + 1 ]
    /\ UNCHANGED << save, files >>
    /\ UNCHANGED << uiVars, dailyVars, patVars, parseVars, htmlVars >>

\* saveToFile rejects: nothing after the throwing statement runs
Throw == save' = [ save EXCEPT !.pc = "threw", !.failed = TRUE ]

\* leetcode-daily.js 257-259, 210-214: saveToFile() calls fetchTodaysProblem(),
\* which awaits its getDailyChallenge()
saveToFile ==
    /\ save.pc = "idle"
    /\ save' = [ save EXCEPT !.pc = "fetchTodaysProblem.getDailyChallenge" ]
    /\ UNCHANGED << remote, files >>
    /\ UNCHANGED << uiVars, dailyVars, patVars, parseVars, htmlVars >>

\* leetcode-daily.js 214-221: the request fails, or answers null (and
\* fetchTodaysProblem throws), or answers the day's challenge
fetchTodaysProblem_getDailyChallengeSettles ==
    /\ save.pc = "fetchTodaysProblem.getDailyChallenge"
    /\ \E res \in { "ok", "null", "error" } :
         IF res = "ok"
           THEN save' = [ save EXCEPT !.daily = DailyOf(remote),
                            !.pc = "fetchTodaysProblem.getProblemDetails" ]
           ELSE Throw
    /\ UNCHANGED << remote, files >>
    /\ UNCHANGED << uiVars, dailyVars, patVars, parseVars, htmlVars >>

\* leetcode-daily.js 221-253, 259-262: the details arrive, fetchTodaysProblem
\* returns its record, and saveToFile awaits getDailyChallenge() once more
fetchTodaysProblem_getProblemDetailsSettles ==
    /\ save.pc = "fetchTodaysProblem.getProblemDetails"
    /\ \E res \in { "ok", "null", "error" } :
         IF res = "ok"
           THEN save' = [ save EXCEPT
                            !.data = ProblemData(save.daily,
                                       DetailsOf(save.daily.question.titleSlug, remote)),
                            !.daily = Absent,
                            !.pc = "getDailyChallenge" ]
           ELSE Throw
    /\ UNCHANGED << remote, files >>
    /\ UNCHANGED << uiVars, dailyVars, patVars, parseVars, htmlVars >>

\* leetcode-daily.js 262-263: a null answer makes daily.question throw
saveToFile_getDailyChallengeSettles ==
    /\ save.pc = "getDailyChallenge"
    /\ \E res \in { "ok", "null", "error" } :
         IF res = "ok"
           THEN save' = [ save EXCEPT !.daily = DailyOf(remote),
                                      !.pc = "getProblemDetails" ]
           ELSE Throw
    /\ UNCHANGED << remote, files >>
    /\ UNCHANGED << uiVars, dailyVars, patVars, parseVars, htmlVars >>

\* leetcode-daily.js 263-271: a null answer makes formatOutput throw; else
\* the text is formatted from this second pair of answers and the two files
\* are written
saveToFile_getProblemDetailsSettles ==
    /\ save.pc = "getProblemDetails"
    /\ \E res \in { "ok", "null", "error" } :
         IF res = "ok"
           THEN LET details == DetailsOf(save.daily.question.titleSlug, remote)
                    content == formatOutput(save.daily, details)
                IN  /\ save' = [ save EXCEPT !.details = details,
                                             !.pc = "returned" ]
                    /\ files' = [ txt  |-> Written(content),
                                  json |-> Written(save.data) ]
           ELSE Throw /\ UNCHANGED files
    /\ UNCHANGED remote
    /\ UNCHANGED << uiVars, dailyVars, patVars, parseVars, htmlVars >>

InitSave ==
    /\ InitUiIdle /\ InitDailyIdle /\ InitPatIdle /\ InitParseIdle
    /\ InitHtmlIdle
    /\ remote \in [ day : 1..MaxDays, likes : 0..MaxLikes ]
    /\ save = NoSave
    /\ files = NoFiles

NextSave ==
    \/ midnight
    \/ vote
    \/ saveToFile
    \/ fetchTodaysProblem_getDailyChallengeSettles
    \/ fetchTodaysProblem_getProblemDetailsSettles
    \/ saveToFile_getDailyChallengeSettles
    \/ saveToFile_getProblemDetailsSettles

SpecSave == InitSave /\ [][NextSave]_vars

----------------------------------------------------------------------------
(* Claims about start()                                                    *)

ValidationFails ==
    \/ ~validGitHubPAT(githubToken)
    \/ geminiKey = << >>
    \/ (mode = MODES.CUSTOM /\ Trim(prompt) = << >>)

\* C1: when the token fails the format check, or the Gemini key is empty, or
\* the mode is Custom Build and the prompt is blank, an invocation of start()
\* issues no external operation: it stays idle, its history of operations is
\* empty, and all it does is write a validation line to the terminal.
C1_RejectedNoNetwork ==
    [][ (pc = "idle" /\ ~isLoading /\ ValidationFails) =>
          /\ pc' = "idle"
          /\ ~isLoading'
          /\ \/ trace' = trace /\ invocation' = invocation
             \/ /\ trace' = << >>
                /\ invocation' = "rejected"
                /\ Len(logs') = Len(logs) + 1
                /\ logs'[Len(logs')] \in ValidationLines ]_vars

\* a blank Custom Build prompt was rejected, the other inputs being valid
C1_Witness ==
    /\ invocation = "rejected"
    /\ trace = << >>
    /\ pc = "idle"
    /\ mode = MODES.CUSTOM
    /\ prompt = << " " >>
    /\ validGitHubPAT(githubToken)
    /\ geminiKey # << >>
    /\ logs # << >>
    /\ logs[Len(logs)] = "Prompt is required for Custom Build mode."

\* the place of an operation in the order start() issues them
Rank(op) ==
    CASE op \in { OpFetchLeetCode, OpFetchCodeforces } -> 1
      [] op = OpGenerate   -> 2
      [] op = OpGetUser    -> 3
      [] op = OpGetRepo    -> 4
      [] op = OpCreateRepo -> 5
      [] op = OpCommit     -> 6

\* C2: within one run the external operations are issued in the order fetch
\* problem (LeetCode and Codeforces modes only), generate, get authenticated
\* user, check/create repository, commit; an operation is issued only when the
\* one before it has settled, and the commit only right after the repository
\* check or the repository creation succeeded.
C2_SequentialOrder ==
    /\ \A i \in DOMAIN trace :
         IF i % 2 = 1
           THEN /\ trace[i].ev = "call"
                /\ i > 1 => Rank(trace[i - 2].op) < Rank(trace[i].op)
           ELSE /\ trace[i].ev = "ret"
                /\ trace[i].op = trace[i - 1].op
    /\ \A i \in DOMAIN trace :
         trace[i].ev = "call" =>
           CASE trace[i].op = OpFetchLeetCode ->
                  i = 1 /\ (pc # "idle" => run.mode = MODES.LEETCODE)
             [] trace[i].op = OpFetchCodeforces ->
                  i = 1 /\ (pc # "idle" => run.mode = MODES.CODEFORCE)
             [] trace[i].op = OpGenerate ->
                  \/ i = 1 /\ (pc # "idle" =>
                                 run.mode \in { MODES.RANDOM, MODES.CUSTOM })
                  \/ i = 3 /\ Rank(trace[1].op) = 1 /\ trace[2].res = "ok"
             [] trace[i].op = OpGetUser ->
                  i > 1 /\ trace[i - 1] = Ret(OpGenerate, "ok")
             [] trace[i].op = OpGetRepo ->
                  i > 1 /\ trace[i - 1] = Ret(OpGetUser, "ok")
             [] trace[i].op = OpCreateRepo ->
                  i > 1 /\ trace[i - 1].op = OpGetRepo
             [] trace[i].op = OpCommit ->
                  i > 1 /\ trace[i - 1] \in { Ret(OpGetRepo, "ok"),
                                              Ret(OpCreateRepo, "ok") }
    /\ (pc # "idle") = (trace # << >> /\ trace[Len(trace)].ev = "call")
    /\ pc # "idle" => trace[Len(trace)].op = pc

\* a Codeforces run went through all six operations and committed
C2_Witness ==
    /\ invocation = "succeeded"
    /\ Len(trace) = 12
    /\ trace[1].op = OpFetchCodeforces
    /\ trace[9].op = OpCreateRepo
    /\ trace[12] = Ret(OpCommit, "ok")

\* C3 (as claimed): the repository is created only when repos.get() answered
\* 404; any other failure of repos.get() ends the run with no repository
\* created and no file committed.
C3_CreateOnlyOnNotFound ==
    \A i \in DOMAIN trace :
      /\ trace[i] = Call(OpCreateRepo, trace[i].repo) =>
           trace[i - 1] = Ret(OpGetRepo, "404")
      /\ trace[i] = Ret(OpGetRepo, "error") =>
           /\ i = Len(trace)
           /\ pc = "idle"

\* an external operation that failed; a repository that is not there is no
\* failure
Failed(e) ==
    /\ e.ev = "ret"
    /\ e.res # "ok"
    /\ ~(e.op = OpGetRepo /\ e.res = "404")

\* C4 (as claimed): no operation is issued twice in a run, nothing is issued
\* after the first failure of an external operation, and a run in which an
\* operation failed ends with exactly one error line in the terminal.
C4_NoRetries ==
    /\ \A i, j \in DOMAIN trace :
         (trace[i].ev = "call" /\ trace[j].ev = "call" /\ trace[i].op = trace[j].op)
           => i = j
    /\ \A i \in DOMAIN trace :
         Failed(trace[i]) =>
           /\ i = Len(trace)
           /\ pc = "idle"
           /\ invocation = "failed"
           /\ Len(SelectSeq(logs, LAMBDA x : x = ErrorLine)) = 1


----------------------------------------------------------------------------
(* Claims about the daily selection                                        *)

\* C5: on one problem list and one calendar date, two selections, whenever
\* in the day and by whichever of the two functions they are made, take the
\* problem at the same index, and the same function returns the same value.
C5_Deterministic ==
    (daily.made /\ prevDaily.made /\ daily.date = prevDaily.date /\ daily.n > 0) =>
       /\ daily.index = prevDaily.index
       /\ daily.by = prevDaily.by => daily.value = prevDaily.value

\* two selections on the same date at different times of day, over a list on
\* which the index can differ
C5_Witness ==
    /\ daily.made /\ prevDaily.made
    /\ daily.date = prevDaily.date
    /\ daily.at # prevDaily.at
    /\ daily.n = 2
    /\ daily.by = "pickDailyProblem" /\ prevDaily.by = "fetchCodeforcesDaily"
    /\ daily.index = prevDaily.index

\* the code points of "-" .. ":" are 45 .. 58
CodePoint(c) ==
    44 + (CHOOSE i \in 1..14 :
            << "-", ".", "/", "0", "1", "2", "3", "4", "5", "6", "7", "8", "9", ":" >>[i] = c)

RECURSIVE CodePointSum(_)
CodePointSum(d) ==
    IF d = << >> THEN 0
    ELSE CodePointSum(SubSeq(d, 1, Len(d) - 1)) + CodePoint(d[Len(d)])

Date20240115 == << "2","0","2","4","-","0","1","-","1","5" >>

\* C6: over n >= 1 problems on the date d the selection takes the problem at
\* index (sum of the code points of d) mod n, an index in 0..n-1 that the
\* problems themselves have no part in; on 2024-01-15 the sum is 489, and over
\* 5000 problems so is the index.
C6_IndexIsCodePointSumModLength ==
    /\ (daily.made /\ daily.n > 0) =>
         LET k == CodePointSum(daily.date) % daily.n IN
         /\ daily.index = Num(k)
         /\ k \in 0..(daily.n - 1)
         /\ daily.threw = ""
         /\ IF daily.by = "pickDailyProblem"
              THEN daily.value = problems[k + 1]
              ELSE /\ daily.value.contestId = problems[k + 1].contestId
                   /\ daily.value.index = problems[k + 1].index
                   /\ daily.value.title = problems[k + 1].name
    /\ SubSeq(toISOString(now), 1, 10) = Date20240115 =>
         /\ CodePointSum(Date20240115) = 489
         /\ dailyIndex([ i \in 1..5000 |-> i ]) = Num(489)

\* on 2024-01-15 a selection was made over three problems: 489 mod 3 = 0
C6_Witness ==
    /\ daily.made
    /\ daily.by = "pickDailyProblem"
    /\ daily.date = Date20240115
    /\ daily.n = 3
    /\ daily.index = Num(0)
    /\ daily.value = problems[1]
    /\ problems[1] # problems[2]

\* C7 (as claimed): over an empty problem list the selection raises an error
\* and returns no value, an undefined one included.
C7_EmptyListRaises ==
    (daily.made /\ daily.n = 0) => daily.threw # ""

----------------------------------------------------------------------------
(* Claims about the token-format check                                     *)

PatClaimPrefixes ==
    { << "g","h","p","_" >>, << "g","h","o","_" >>, << "g","h","u","_" >>,
      << "g","h","s","_" >>, << "g","h","r","_" >> }

LettersDigitsUnderscore ==
    { "a","b","c","d","e","f","g","h","i","j","k","l","m",
      "n","o","p","q","r","s","t","u","v","w","x","y","z",
      "A","B","C","D","E","F","G","H","I","J","K","L","M",
      "N","O","P","Q","R","S","T","U","V","W","X","Y","Z",
      "0","1","2","3","4","5","6","7","8","9","_" }

PatWellFormed(t) ==
    \E pre \in PatClaimPrefixes :
      /\ Len(t) >= Len(pre) + 36
      /\ SubSeq(t, 1, Len(pre)) = pre
      /\ Range(SubSeq(t, Len(pre) + 1, Len(t))) \subseteq LettersDigitsUnderscore

\* C8: the check accepts a token exactly when the whole token is one of ghp_,
\* gho_, ghu_, ghs_, ghr_ followed by at least 36 letters, digits or
\* underscores; ghp_ with 36 of them passes and ghp_ with 35 fails.
C8_TokenFormat ==
    patResult # "unchecked" =>
      /\ (patResult = "valid") = PatWellFormed(githubToken)
      /\ githubToken = GoodToken => patResult = "valid"
      /\ githubToken = ShortToken => patResult = "invalid"

\* a token of a good prefix and more than 36 good characters was accepted
C8_Witness ==
    /\ patResult = "valid"
    /\ Len(githubToken) = 4 + 36 + 1
    /\ githubToken[3] = "r"

----------------------------------------------------------------------------
(* Claims about parseCustomBuildResponse                                   *)

\* where lit occurs in s
Occ(s, lit) ==
    { i \in 1..Len(s) : i + Len(lit) - 1 <= Len(s)
                         /\ SubSeq(s, i, i + Len(lit) - 1) = lit }

\* the end sentinels that follow the first start sentinel
EndsAfterStart(s) ==
    IF Occ(s, CodeStart) = {} THEN {}
    ELSE { j \in Occ(s, CodeEnd) : j >= Min(Occ(s, CodeStart)) + Len(CodeStart) }

\* both sentinels are there, the start one followed later by the end one
BothSentinels(s) == EndsAfterStart(s) # {}

\* the text between the first start sentinel and the end sentinel next to it
Between(s) ==
    SubSeq(s, Min(Occ(s, CodeStart)) + Len(CodeStart), Min(EndsAfterStart(s)) - 1)

\* the word (up to the next white space) that follows the first marker and
\* the white space behind it
RECURSIVE Word(_)
Word(s) ==
    IF s = << >> \/ Head(s) \in WhiteSpace THEN << >>
    ELSE << Head(s) >> \o Word(Tail(s))

MarkerWord(s) ==
    LET i == Min(Occ(s, RepoMarker)) IN
    Word(TrimStart(SubSeq(s, i + Len(RepoMarker), Len(s))))

KebabChars ==
    { "a","b","c","d","e","f","g","h","i","j","k","l","m",
      "n","o","p","q","r","s","t","u","v","w","x","y","z",
      "A","B","C","D","E","F","G","H","I","J","K","L","M",
      "N","O","P","Q","R","S","T","U","V","W","X","Y","Z",
      "0","1","2","3","4","5","6","7","8","9","-" }

\* the first REPO_NAME: marker is followed by a name of the restricted
\* characters, set off by white space
MarkerWellFormed(s) ==
    /\ Occ(s, RepoMarker) # {}
    /\ MarkerWord(s) # << >>
    /\ Range(MarkerWord(s)) \subseteq KebabChars

\* C9: of a response with a well-formed REPO_NAME: marker and both sentinels
\* in order, the parser returns the name that follows the marker as repoName
\* and the trimmed text between the sentinels as code.
C9_ExtractsNameAndCode ==
    (parsed.done /\ BothSentinels(response) /\ MarkerWellFormed(response)) =>
       /\ parsed.repoName = Some(MarkerWord(response))
       /\ parsed.code = Trim(Between(response))

\* a response in the requested format, with white space around the code
C9_Witness ==
    /\ parsed.done
    /\ BothSentinels(response)
    /\ MarkerWellFormed(response)
    /\ Between(response) # Trim(Between(response))
    /\ parsed.repoName = Some(RepoNameMyApp)
    /\ parsed.code = << "x", " ", "=", " ", "1" >>

\* C10: of a response that does not hold both sentinels in order, the parser
\* returns the whole trimmed response as code and null as repoName, a
\* REPO_NAME: marker in the response notwithstanding.
C10_FallbackWholeResponse ==
    (parsed.done /\ ~BothSentinels(response)) =>
       /\ parsed.repoName = null
       /\ parsed.code = Trim(response)

\* a response with a well-formed marker, the end sentinel before the start
\* one, and white space to trim
C10_Witness ==
    /\ parsed.done
    /\ ~BothSentinels(response)
    /\ MarkerWellFormed(response)
    /\ Occ(response, CodeStart) # {}
    /\ Occ(response, CodeEnd) # {}
    /\ response # Trim(response)
    /\ parsed.repoName = null
    /\ parsed.code = Trim(response)


----------------------------------------------------------------------------
(* C11 *)

\* what the normalizer is to emit for a tag: a fence line for pre, the
\* emphasis markers for strong and em, a bullet prefix for li, a line break
\* for p and br, nothing for a tag outside the vocabulary
TagEmits ==
    { << << "<","p","r","e",">" >>, Fence >>,
      << << "<","/","p","r","e",">" >>, Fence >>,
      << << "<","s","t","r","o","n","g",">" >>, << "*","*" >> >>,
      << << "<","/","s","t","r","o","n","g",">" >>, << "*","*" >> >>,
      << << "<","e","m",">" >>, << "*" >> >>,
      << << "<","/","e","m",">" >>, << "*" >> >>,
      << << "<","l","i",">" >>, << Bullet," " >> >>,
      << << "<","p",">" >>, << "\n" >> >>,
      << << "<","/","p",">" >>, << "\n" >> >>,
      << << "<","b","r",">" >>, << "\n" >> >>,
      << << "<","b","r"," ","/",">" >>, << "\n" >> >>,
      << << "<","d","i","v",">" >>, << >> >>,
      << << "<","/","d","i","v",">" >>, << >> >> }

EmitOf(t) == (CHOOSE e \in TagEmits : e[1] = t)[2]

RECURSIVE EmitAll(_)
EmitAll(ts) == IF ts = << >> THEN << >> ELSE EmitOf(Head(ts)) \o EmitAll(Tail(ts))

\* s without every newline that follows two newlines: each run of three or
\* more newlines becomes two, the other characters stay
Squeeze(s) ==
    LET keep == { i \in DOMAIN s :
                    ~(i >= 3 /\ s[i] = "\n" /\ s[i-1] = "\n" /\ s[i-2] = "\n") }
        nth(k) == CHOOSE i \in keep : Cardinality({ j \in keep : j <= i }) = k
    IN  [ k \in 1..Cardinality(keep) |-> s[nth(k)] ]

HelloWorld ==
    << "H","e","l","l","o"," ","*","*","w","o","r","l","d","*","*" >>

\* C11: whichever copy of cleanHtmlContent ran, on a statement made of a
\* letter, tags and a letter the outcome is the two letters with, between
\* them, what each tag is to emit (a fence for pre, ** for strong, * for em,
\* a bullet prefix for li, a line break for p and br, nothing for a tag
\* outside the vocabulary), and the example statement becomes
\* "Hello **world**"
C11_TagsReplaced ==
    cleaned.done =>
      /\ \A ts \in SeqsUpTo({ e[1] : e \in TagEmits }, MaxTags) :
           html = Some(<< "a" >> \o Flatten(ts) \o << "b" >>)
             => cleaned.text = Squeeze(<< "a" >> \o EmitAll(ts) \o << "b" >>)
      /\ html = Some(ExampleHtml) => cleaned.text = HelloWorld

----------------------------------------------------------------------------
(* C12 *)

\* the statement with its tags and entities replaced, as the copy that ran
\* had it before it collapsed the newlines
Replaced ==
    IF cleaned.by = "App.jsx" THEN replaceMarkup(html.val)
    ELSE LeetCodeDaily_replaceMarkup(html.val)

NewlineRun(s, i, n) == \A k \in 0..(n - 1) : i + k <= Len(s) /\ s[i + k] = "\n"

\* C12: the outcome of cleanHtmlContent holds no three newlines in a row; it
\* is the text after tag and entity replacement with every run of three or
\* more newlines cut down to two and every other character kept, trimmed
C12_NoTripleNewline ==
    cleaned.done =>
      /\ \A i \in DOMAIN cleaned.text : ~NewlineRun(cleaned.text, i, 3)
      /\ ~html.isNull => cleaned.text = Trim(Squeeze(Replaced))

\* a run of four newlines in the input, and one made of a tag and newlines,
\* came out as two
C12_Witness ==
    /\ cleaned.done
    /\ \/ html = Some(<< "a", "\n", "\n", "\n", "\n", "a" >>)
       \/ /\ cleaned.by = "leetcode-daily.js"
          /\ html = Some(<< "a", "\n", "\n", "<", "/", "p", ">", "a" >>)
    /\ cleaned.text = << "a", "\n", "\n", "a" >>

----------------------------------------------------------------------------
(* C13 *)

\* a step of saveSettings: the two fields are stored, a line is logged, and
\* nothing of the form or of a run changes
SaveStep ==
    /\ localStorage' = [ GEMINI_API_KEY |-> geminiKey, GITHUB_PAT |-> githubToken ]
    /\ logs' = Append(logs, SavedLine)
    /\ UNCHANGED << mode, language, prompt, geminiKey, githubToken, repoOverride,
                    isLoading, pc, run, trace, invocation >>

\* C13: the stored credentials change in steps of saveSettings only: a step
\* that edits a field, changes mode, language or prompt, or starts, advances
\* or ends a run of start() leaves them as they were; and the stored values
\* are not read again after startup (a step that changes them leaves the
\* fields alone)
C13_StoredOnlyBySave ==
    [][ localStorage' # localStorage => SaveStep ]_vars

\* the key, the mode and the language were changed and a run went through to
\* its commit, and the stored key is still the one found at startup
C13_Witness ==
    /\ invocation = "succeeded"
    /\ mode # MODES.RANDOM
    /\ language # LANGUAGES.PYTHON
    /\ geminiKey # << >>
    /\ localStorage.GEMINI_API_KEY = << >>

----------------------------------------------------------------------------
(* C14 *)

\* the operations issued in the history that have not settled
Outstanding ==
    Cardinality({ i \in DOMAIN trace : trace[i].ev = "call" })
      - Cardinality({ i \in DOMAIN trace : trace[i].ev = "ret" })

\* C14: isLoading is true exactly while an invocation of start() that passed
\* validation is suspended at an external call; while it is true start() is
\* not enabled and one operation, no more, is pending; once the invocation
\* has ended, in success or in failure, it is false and nothing is pending
C14_LoadingWhileRunning ==
    /\ isLoading <=> pc # "idle"
    /\ isLoading <=> invocation = "running"
    /\ isLoading => ~ENABLED start
    /\ Outstanding = IF isLoading THEN 1 ELSE 0

\* a run failed at the commit, and isLoading is false again
C14_Witness ==
    /\ invocation = "failed"
    /\ trace # << >>
    /\ trace[Len(trace)] = Ret(OpCommit, "error")
    /\ ~isLoading

----------------------------------------------------------------------------
(* C15 *)

DailyModes == { MODES.LEETCODE, MODES.CODEFORCE }

\* the repository the claim names for the run in progress
ClaimedRepository ==
    IF run.repoOverride # << >> THEN run.repoOverride
    ELSE IF run.mode \in DailyModes THEN << "D","S","A" >>
    ELSE IF run.mode = MODES.CUSTOM /\ run.customRepoName # null
              /\ run.customRepoName.val # << >>
      THEN run.customRepoName.val
    ELSE << "G","i","t","E","x","p","r","e","s","s","-",
            "A","r","c","h","i","v","e","d" >>

RepoOps == { OpGetRepo, OpCreateRepo, OpCommit }

\* C15: in a run that has got past the generation, the repository looked up,
\* the repository created and the repository committed to are all the
\* repository the precedence names: the override the run started with if it
\* is not empty, else "DSA" in the daily modes, the extracted name (or
\* "GitExpress-Archived" without one) in Custom Build, and
\* "GitExpress-Archived" in Random Generation
C15_RepositoryChoice ==
    pc \in { OpGetUser } \cup RepoOps =>
      /\ run.targetRepo = ClaimedRepository
      /\ \A i \in DOMAIN trace :
           trace[i].ev = "call" /\ trace[i].op \in RepoOps
             => trace[i].repo = ClaimedRepository

\* a Custom Build run without override looked up, created and is committing
\* to the repository named in the response
C15_Witness ==
    /\ pc = OpCommit
    /\ run.mode = MODES.CUSTOM
    /\ run.repoOverride = << >>
    /\ run.customRepoName = Some(RepoNameMyApp)
    /\ \A op \in RepoOps :
         \E i \in DOMAIN trace : trace[i] = Call(op, RepoNameMyApp)

----------------------------------------------------------------------------
(* C16 *)

\* the value the text carries on the line that begins with label
LineOf(text, label) == (CHOOSE l \in Range(text) : l[1] = label)[2]

\* C16: the two files are written together or not at all; when they are
\* written, the text and the JSON record carry the same date, link, problem,
\* likes and description, those of one daily challenge and one set of
\* details; and when a fetch of the invocation failed, no file is written
C16_FilesDescribeSameProblem ==
    /\ files.txt.absent <=> files.json.absent
    /\ save.failed => files = NoFiles
    /\ ~files.txt.absent =>
         LET text == files.txt.content
             data == files.json.content
         IN  /\ LineOf(text, "LEETCODE DAILY CHALLENGE - ") = data.date
             /\ LineOf(text, "Link: https://leetcode.com") = data.link[2]
             /\ LineOf(text, "Problem #") = data.problem.id
             /\ LineOf(text, "Title: ") = data.problem.title
             /\ LineOf(text, "Likes: ") = data.problem.likes
             /\ LineOf(text, "PROBLEM DESCRIPTION") = data.problem.description

----------------------------------------------------------------------------
(* C17 *)

\* the character each entity names
EntityChars ==
    { << << "&","n","b","s","p",";" >>, << " " >> >>,
      << << "&","l","t",";" >>, << "<" >> >>,
      << << "&","g","t",";" >>, << ">" >> >>,
      << << "&","a","m","p",";" >>, << "&" >> >>,
      << << "&","q","u","o","t",";" >>, << "\"" >> >>,
      << << "&","#","3","9",";" >>, << "'" >> >> }

\* s read once from left to right, each entity met replaced by the character
\* it names and the reading resumed after it
RECURSIVE DecodeOnce(_)
DecodeOnce(s) ==
    IF s = << >> THEN << >>
    ELSE LET here == { e \in EntityChars : MatchAt(s, 1, e[1]) } IN
         IF here = { } THEN << Head(s) >> \o DecodeOnce(Tail(s))
         ELSE LET e == CHOOSE x \in here : TRUE IN
              e[2] \o DecodeOnce(SubSeq(s, Len(e[1]) + 1, Len(s)))

\* C17: on a statement without tags and newlines the outcome of
\* cleanHtmlContent is the statement with each entity decoded exactly once,
\* trimmed: what a decoded "&amp;" forms with the text after it is not decoded
\* again, so "&amp;quot;", "&amp;#39;" and "&amp;lt;" come out as "&quot;",
\* "&#39;" and "&lt;"
C17_DecodedOnce ==
    cleaned.done /\ ~html.isNull /\ Range(html.val) \cap { "<", "\n" } = { }
      => cleaned.text = Trim(DecodeOnce(html.val))

============================================================================
